---------------------------- MODULE Spec2Model ----------------------------
(***************************************************************************)
(* A model of deploy.py: the specialization resolver (SpecializedItem),    *)
(* the symlink plan (SymlinkContainer) and the deployment run (main).      *)
(*                                                                         *)
(* Strings are sequences of one-character strings.  Paths are records      *)
(* [abs, parts]: whether the path is absolute and its components.          *)
(***************************************************************************)
EXTENDS Integers, Sequences, FiniteSets, TLC

VARIABLES
    username,     \* SpecializedItem.username (class attribute)
    host,         \* SpecializedItem.host (class attribute)
    args,         \* the parsed command line: dry, force, username, hostname
    answer,       \* what the user types at the confirmation prompt
    srcDirs,      \* the directories of the source tree, relative to its root
    srcFiles,     \* the files of the source tree: <<directory, filename>>
    rules,        \* the lines of the ignore file ("matches")
    pc,           \* where the run is
    walkStack,    \* the directories os.walk has still to yield
    root,         \* the directory the walk's body is in
    files,        \* the files of root the inner loop has still to see
    container,    \* SymlinkContainer._container, in insertion order
    directories,  \* main's set of leaf destination directories
    dirsTodo,     \* the directories the creation loop has still to see
    genIdx,       \* the position of generate's loop in the container
    fsDirs,       \* the directories that exist under the destination
    fsFiles,      \* the files and links that exist under the destination
    mutations,    \* every mutating system call made so far
    exc,          \* the exception that ended the run, if any
    item,         \* the SpecializedItem last constructed
    ret,          \* what is_valid and get_priority returned for it
    history       \* the items passed to SymlinkContainer.add so far

vars == <<username, host, args, answer, srcDirs, srcFiles, rules, pc,
          walkStack, root, files, container, directories, dirsTodo, genIdx,
          fsDirs, fsFiles, mutations, exc, item, ret, history>>

---------------------------------------------------------------------------
(* Bounds of the model.                                                    *)

MaxIdLen == 1        \* longest username / hostname of the resolver runs
MaxQualLen == 3      \* longest qualifier of the resolver runs
MaxRawLen == 3       \* longest raw filename of the resolver runs
MaxAdds == 3         \* most add calls of a container run
MaxFiles == 2        \* most files of a source tree
MaxRules == 1        \* most lines of an ignore file

---------------------------------------------------------------------------
(* Values and characters.                                                  *)

\* Python's None, as a string no filename can be.
None == <<"None">>

NL == "\n"

\* The characters usernames and hostnames are made of; "." is a regular
\* expression metacharacter.
IdChars == {"u", "h", "."}

\* The characters qualifiers are made of.
QualChars == {"u", "h", ".", "@", NL}

\* The characters raw filenames are made of.
RawChars == {"f", "<", ">", NL}

RECURSIVE Strings(_, _)
Strings(chars, n) ==
    IF n = 0 THEN {<<>>}
    ELSE LET shorter == Strings(chars, n - 1)
         IN shorter \cup {Append(s, c) : s \in {t \in shorter : Len(t) = n - 1},
                                         c \in chars}

NonEmpty(S) == {s \in S : s # <<>>}

\* A truthy Python string: neither None nor empty.
Truthy(s) == s # None /\ s # <<>>

---------------------------------------------------------------------------
(* Regular expressions, as the re module matches the three patterns.       *)

\* "$": the end of the string, or just before a newline that ends it.
\* i is the position of the next character to match.
DollarAt(s, i) == i = Len(s) + 1 \/ (i = Len(s) /\ s[i] = NL)

\* One character of a pattern made by format() from the identity: "."
\* matches anything but a newline, any other character matches itself.
CharMatches(p, c) == IF p = "." THEN c # NL ELSE p = c

\* The pattern characters pat match s from position i on.
PatternAt(pat, s, i) ==
    /\ i + Len(pat) - 1 <= Len(s)
    /\ \A k \in 1..Len(pat) : CharMatches(pat[k], s[i + k - 1])

\* '<(?P<specialization>[^<]*?)>$' tried right after a name of k
\* characters: the lengths j of the specialization for which it matches.
SpecLengths(s, k) ==
    {j \in 0..(Len(s) - k - 2) :
        /\ s[k + 1] = "<"
        /\ \A m \in (k + 2)..(k + 1 + j) : s[m] # "<"
        /\ s[k + 2 + j] = ">"
        /\ DollarAt(s, k + 3 + j)}

\* The name lengths k for which the filename pattern matches:
\* '.+?' takes k characters, none a newline, then the optional group
\* matches, or is skipped and "$" matches.
NameLengths(s) ==
    {k \in 1..Len(s) :
        /\ \A m \in 1..k : s[m] # NL
        /\ (SpecLengths(s, k) # {} \/ DollarAt(s, k + 1))}

Min(S) == CHOOSE x \in S : \A y \in S : x <= y

\* re.match('^(?P<name>.+?)(<(?P<specialization>[^<]*?)>$)?$', filename)
\* finds a match.
split_matches(filename) == NameLengths(filename) # {}

\* Its groupdict(): the lazy name takes the least length that lets the
\* rest match, and the group is tried before it is skipped.
split_groupdict(filename) ==
    LET k == Min(NameLengths(filename))
    IN [name |-> SubSeq(filename, 1, k),
        specialization |->
            IF SpecLengths(filename, k) = {} THEN None
            ELSE SubSeq(filename, k + 2,
                        k + 1 + Min(SpecLengths(filename, k)))]

\* As identity_groups, with the groups of is_valid's pattern
\* '^({host}|{user}(@{host})?)$': the user alone is no group of its own.
identity_groups_flat(user, hst, s) ==
    IF PatternAt(hst, s, 1) /\ DollarAt(s, 1 + Len(hst))
    THEN <<SubSeq(s, 1, Len(hst)), None>>
    ELSE IF /\ PatternAt(user, s, 1)
            /\ PatternAt(<<"@">> \o hst, s, 1 + Len(user))
            /\ DollarAt(s, 2 + Len(user) + Len(hst))
    THEN <<SubSeq(s, 1, Len(user) + 1 + Len(hst)),
           SubSeq(s, Len(user) + 1, Len(user) + 1 + Len(hst))>>
    ELSE IF PatternAt(user, s, 1) /\ DollarAt(s, 1 + Len(user))
    THEN <<SubSeq(s, 1, Len(user)), None>>
    ELSE None

\* re.match('^({host}|({user}(@{host})?))$', s).groups(), or None: the
\* host alternative is tried first, then the user with the greedy
\* optional '@host'.
identity_groups(user, hst, s) ==
    IF PatternAt(hst, s, 1) /\ DollarAt(s, 1 + Len(hst))
    THEN <<SubSeq(s, 1, Len(hst)), None, None>>
    ELSE IF /\ PatternAt(user, s, 1)
            /\ PatternAt(<<"@">> \o hst, s, 1 + Len(user))
            /\ DollarAt(s, 2 + Len(user) + Len(hst))
    THEN <<SubSeq(s, 1, Len(user) + 1 + Len(hst)),
           SubSeq(s, 1, Len(user) + 1 + Len(hst)),
           SubSeq(s, Len(user) + 1, Len(user) + 1 + Len(hst))>>
    ELSE IF PatternAt(user, s, 1) /\ DollarAt(s, 1 + Len(user))
    THEN <<SubSeq(s, 1, Len(user)), SubSeq(s, 1, Len(user)), None>>
    ELSE None

---------------------------------------------------------------------------
(* SpecializedItem.                                                        *)

\* SpecializedItem._split_specialization
split_specialization(it) ==
    IF ~split_matches(it.filename) THEN it
    ELSE LET matches == split_groupdict(it.filename)
         IN [it EXCEPT !.specialization = matches.specialization,
                       !.destination = matches.name]

\* SpecializedItem.__init__
SpecializedItem(directory, filename) ==
    split_specialization([filename |-> filename, directory |-> directory,
                          destination |-> None, specialization |-> None])

\* SpecializedItem.is_valid raises TypeError: re.match is handed None.
is_valid_raises(it) ==
    /\ ~(Truthy(it.destination) /\ it.specialization = None)
    /\ it.specialization = None

\* SpecializedItem.is_valid, when it returns.
is_valid(it, user, hst) ==
    IF Truthy(it.destination) /\ it.specialization = None THEN TRUE
    ELSE identity_groups(user, hst, it.specialization) # None

\* SpecializedItem.get_priority
get_priority(it, user, hst) ==
    IF ~Truthy(it.specialization) THEN 0
    ELSE LET groups == identity_groups(user, hst, it.specialization)
         IN IF groups = None THEN -1
            ELSE Cardinality({g \in 1..Len(groups) : Truthy(groups[g])})

---------------------------------------------------------------------------
(* os.path and fnmatch.                                                    *)

Path(abs, parts) == [abs |-> abs, parts |-> parts]

Dot == <<".">>
DotDot == <<".", ".">>

\* The working directory, which abspath joins relative paths to.
Cwd == Path(TRUE, << <<"w">> >>)

\* os.path.join of two paths: an absolute second path discards the first.
join(a, b) == IF b.abs THEN b ELSE Path(a.abs, a.parts \o b.parts)

RECURSIVE NormParts(_, _, _)
NormParts(parts, abs, acc) ==
    IF parts = <<>> THEN acc
    ELSE LET comp == Head(parts)
             rest == Tail(parts)
         IN IF comp = <<>> \/ comp = Dot THEN NormParts(rest, abs, acc)
            ELSE IF comp # DotDot THEN NormParts(rest, abs, Append(acc, comp))
            ELSE IF acc # <<>> /\ acc[Len(acc)] # DotDot
                 THEN NormParts(rest, abs, SubSeq(acc, 1, Len(acc) - 1))
            ELSE IF abs THEN NormParts(rest, abs, acc)
            ELSE NormParts(rest, abs, Append(acc, comp))

\* os.path.normpath: "." and empty components go, ".." takes back the
\* component before it; an empty relative result is ".".
normpath(p) ==
    LET parts == NormParts(p.parts, p.abs, <<>>)
    IN Path(p.abs, IF parts = <<>> /\ ~p.abs THEN <<Dot>> ELSE parts)

\* os.path.abspath
abspath(p) == normpath(IF p.abs THEN p ELSE join(Cwd, p))

RECURSIVE CommonLen(_, _)
CommonLen(a, b) ==
    IF a = <<>> \/ b = <<>> \/ Head(a) # Head(b) THEN 0
    ELSE 1 + CommonLen(Tail(a), Tail(b))

\* As relpath, with the first component of the result dropped.
relpath_tail(path, start) ==
    LET start_list == abspath(start).parts
        path_list == abspath(path).parts
        i == CommonLen(start_list, path_list)
        rel_list == SubSeq(path_list, i + 2, Len(path_list))
    IN Path(FALSE, IF rel_list = <<>> THEN <<Dot>> ELSE rel_list)

\* os.path.relpath(path, start)
relpath(path, start) ==
    LET start_list == abspath(start).parts
        path_list == abspath(path).parts
        i == CommonLen(start_list, path_list)
        rel_list == [k \in 1..(Len(start_list) - i) |-> DotDot]
                    \o SubSeq(path_list, i + 1, Len(path_list))
    IN Path(FALSE, IF rel_list = <<>> THEN <<Dot>> ELSE rel_list)

\* A relative path as the string fnmatch is handed: its components
\* joined by "/".
RECURSIVE JoinSep(_)
JoinSep(parts) ==
    IF parts = <<>> THEN <<>>
    ELSE IF Len(parts) = 1 THEN Head(parts)
    ELSE Head(parts) \o <<"/">> \o JoinSep(Tail(parts))

\* fnmatch.fnmatch(name, pat) for patterns of literal characters, "?"
\* and "*" ("*" matches any run of characters, "/" and newline too).
RECURSIVE fnmatch(_, _)
fnmatch(name, pat) ==
    IF pat = <<>> THEN name = <<>>
    ELSE IF Head(pat) = "*"
         THEN fnmatch(name, Tail(pat))
              \/ (name # <<>> /\ fnmatch(Tail(name), pat))
    ELSE /\ name # <<>>
         /\ (Head(pat) = "?" \/ Head(pat) = Head(name))
         /\ fnmatch(Tail(name), Tail(pat))

\* The function ignore_matcher_creator returns, as a truth value.
ignored(matches, name) == \E m \in matches : fnmatch(name, m)

---------------------------------------------------------------------------
(* SymlinkContainer.                                                       *)

\* The position of dst among the container's keys, 0 when it is no key.
KeyIndex(cont, dst) ==
    IF \E i \in 1..Len(cont) : cont[i].dst = dst
    THEN CHOOSE i \in 1..Len(cont) : cont[i].dst = dst
    ELSE 0

\* The destination add computes for an item.
add_dst(it, src_root, dst_root) ==
    LET dst_dir == join(dst_root, relpath(it.directory, src_root))
    IN abspath(join(dst_dir, Path(FALSE, <<it.destination>>)))

\* The source add stores for an item.
add_src(it, src_root) ==
    join(join(src_root, it.directory), Path(FALSE, <<it.filename>>))

\* As add_stores, with an equal priority replacing the stored one.
add_stores_on_tie(cont, dst, priority) ==
    \/ KeyIndex(cont, dst) = 0
    \/ cont[KeyIndex(cont, dst)].priority <= priority

\* As add_stores, with every item stored.
add_stores_always(cont, dst, priority) == TRUE

\* Whether add stores the item: the destination is new, or its stored
\* priority is lower.
add_stores(cont, dst, priority) ==
    \/ KeyIndex(cont, dst) = 0
    \/ cont[KeyIndex(cont, dst)].priority < priority

\* SymlinkContainer.add: the container after the call.  Assigning to a
\* key the dict holds keeps the key's place.
add(cont, it, user, hst, src_root, dst_root) ==
    LET dst == add_dst(it, src_root, dst_root)
        priority == get_priority(it, user, hst)
        entry == [dst |-> dst, source |-> add_src(it, src_root),
                  priority |-> priority]
    IN IF ~add_stores(cont, dst, priority) THEN cont
       ELSE IF KeyIndex(cont, dst) = 0 THEN Append(cont, entry)
       ELSE [cont EXCEPT ![KeyIndex(cont, dst)] = entry]

---------------------------------------------------------------------------
(* Values shared by the specifications.                                    *)

SourceRoot == Path(TRUE, << <<"s", "r", "c">> >>)
DestinationRoot == Path(TRUE, << <<"o", "u", "t">> >>)

NoPath == Path(FALSE, <<>>)
NoItem == [filename |-> None, directory |-> NoPath,
           destination |-> None, specialization |-> None]
NoRet == [valid |-> "", priority |-> 0]
NoArgs == [dry |-> TRUE, force |-> FALSE, username |-> None, hostname |-> None]

\* The usernames and hostnames of the resolver runs.
IdStrings == NonEmpty(Strings(IdChars, MaxIdLen))

\* f<q>
Qualified(name, q) == name \o <<"<">> \o q \o <<">">>

---------------------------------------------------------------------------
(* The resolver alone: one filename is parsed and scored against one       *)
(* identity.                                                               *)

ResolveNames ==
    Strings(RawChars, MaxRawLen)
    \cup {Qualified(<<"f">>, q) : q \in Strings(QualChars, MaxQualLen)}

InitResolve ==
    /\ username \in IdStrings
    /\ host \in IdStrings
    /\ args = NoArgs /\ answer = <<>>
    /\ srcDirs = {} /\ srcFiles = {} /\ rules = {}
    /\ pc = "resolve"
    /\ walkStack = <<>> /\ root = NoPath /\ files = {}
    /\ container = <<>> /\ directories = {} /\ dirsTodo = {} /\ genIdx = 0
    /\ fsDirs = {} /\ fsFiles = {} /\ mutations = {} /\ exc = ""
    /\ item = NoItem /\ ret = NoRet /\ history = <<>>

\* item = SpecializedItem(root, name); item.is_valid(); item.get_priority()
Resolve ==
    /\ pc = "resolve"
    /\ \E name \in ResolveNames :
          LET it == SpecializedItem(SourceRoot, name)
          IN /\ item' = it
             /\ ret' = [valid |-> IF is_valid_raises(it) THEN "TypeError"
                                  ELSE IF is_valid(it, username, host)
                                  THEN "True" ELSE "False",
                        priority |-> get_priority(it, username, host)]
    /\ pc' = "resolved"
    /\ UNCHANGED <<username, host, args, answer, srcDirs, srcFiles, rules,
                   walkStack, root, files, container, directories, dirsTodo,
                   genIdx, fsDirs, fsFiles, mutations, exc, history>>

SpecResolve == InitResolve /\ [][Resolve]_vars

---------------------------------------------------------------------------
(* The container alone: items are added in any order.                      *)

\* The identities of the container runs: distinct plain names, a
\* hostname with a metacharacter, and a username equal to the hostname.
AddIdentities == {<< <<"u">>, <<"h">> >>, << <<"u">>, <<".">> >>,
                  << <<"h">>, <<"h">> >>}

\* The directories the added items lie in.
AddDirs == {SourceRoot,
            join(SourceRoot, Path(FALSE, << <<"a">>, <<"b">> >>))}

\* The filenames of the added items: every variant of "f".
AddNames(user, hst) ==
    {<<"f">>, <<"f", NL>>}
    \cup {Qualified(<<"f">>, q) :
            q \in {hst, user, user \o <<"@">> \o hst, <<"x">>, <<>>}}

InitAdd ==
    /\ \E id \in AddIdentities : username = id[1] /\ host = id[2]
    /\ args = NoArgs /\ answer = <<>>
    /\ srcDirs = {} /\ srcFiles = {} /\ rules = {}
    /\ pc = "add"
    /\ walkStack = <<>> /\ root = NoPath /\ files = {}
    /\ container = <<>> /\ directories = {} /\ dirsTodo = {} /\ genIdx = 0
    /\ fsDirs = {} /\ fsFiles = {} /\ mutations = {} /\ exc = ""
    /\ item = NoItem /\ ret = NoRet /\ history = <<>>

\* symlinks.add(SpecializedItem(directory, name))
AddCall ==
    /\ pc = "add"
    /\ Len(history) < MaxAdds
    /\ \E directory \in AddDirs, name \in AddNames(username, host) :
          LET it == SpecializedItem(directory, name)
          IN /\ item' = it
             /\ container' = add(container, it, username, host,
                                 SourceRoot, DestinationRoot)
             /\ history' = Append(history, it)
    /\ UNCHANGED <<username, host, args, answer, srcDirs, srcFiles, rules,
                   pc, walkStack, root, files, directories, dirsTodo,
                   genIdx, fsDirs, fsFiles, mutations, exc, ret>>

SpecAdd == InitAdd /\ [][AddCall]_vars

---------------------------------------------------------------------------
(* main: the whole run.                                                    *)

\* str.lower, on the characters an answer is made of.
lower(str) == [k \in 1..Len(str) |-> IF str[k] = "Y" THEN "y" ELSE str[k]]

\* As proceeds, with every answer taken for a yes.
proceeds_whatever(dry, ans) == TRUE

\* Whether main goes on after the prompt: a dry run is not asked, any
\* other run goes on when the answer, lowered, is "y".
proceeds(dry, ans) == dry \/ lower(ans) = <<"y">>

\* The usernames and hostnames of a run: plain names, and a hostname with
\* a metacharacter.
MainIdentities == {<< <<"u">>, <<"h">> >>, << <<"u">>, <<".">> >>}

\* What the user may type at the prompt.
Answers == {<<"y">>, <<"Y">>, <<"n">>, <<>>}

Sub(parts) == join(SourceRoot, Path(FALSE, parts))
Out(parts) == join(DestinationRoot, Path(FALSE, parts))

\* The directories a source tree may hold: the root, a and a/b.
DirUniverse == {Sub(<<>>), Sub(<< <<"a">> >>), Sub(<< <<"a">>, <<"b">> >>)}

Parent(p) == Path(p.abs, SubSeq(p.parts, 1, Len(p.parts) - 1))

\* The source trees' shapes: the root, and with a directory its parent.
TreeShapes ==
    {ds \in SUBSET DirUniverse :
        /\ SourceRoot \in ds
        /\ \A d \in ds : d = SourceRoot \/ Parent(d) \in ds}

\* The files a source tree may hold.  In the root: f, its variant for
\* the host, a variant for another host, and a name with a newline
\* inside.  In a and in a/b: f.
FileUniverse(hst) ==
    ({Sub(<<>>)} \X {<<"f">>, Qualified(<<"f">>, hst),
                     Qualified(<<"f">>, <<"x">>), <<"f", NL, "f">>})
    \cup {<<Sub(<< <<"a">> >>), <<"f">>>>,
          <<Sub(<< <<"a">>, <<"b">> >>), <<"f">>>>}

\* The name of the ignore file (args.ignorefile).
IgnoreFile == <<"i">>

\* The lines an ignore file may hold.
RuleUniverse == {<<"a">>, <<"a", "/", "b">>, <<"f">>}

\* What may exist under the destination before the run.
DstStates ==
    {[dirs |-> {}, files |-> {}],
     [dirs |-> {Out(<<>>)}, files |-> {}],
     [dirs |-> {Out(<<>>)}, files |-> {Out(<< <<"f">> >>)}],
     [dirs |-> {Out(<<>>), Out(<< <<"a">> >>)}, files |-> {}]}

Bounded(S, n) == {x \in SUBSET S : Cardinality(x) <= n}

Init ==
    /\ username = None /\ host = None
    /\ \E id \in MainIdentities, dry \in BOOLEAN, force \in BOOLEAN :
          args = [dry |-> dry, force |-> force,
                  username |-> id[1], hostname |-> id[2]]
    /\ answer \in (IF args.dry THEN {<<>>} ELSE Answers)
    /\ srcDirs \in TreeShapes
    /\ rules \in Bounded(RuleUniverse, MaxRules)
    /\ \E fs \in Bounded({f \in FileUniverse(args.hostname) : f[1] \in srcDirs},
                         MaxFiles) :
          srcFiles = fs \cup (IF rules = {} THEN {}
                              ELSE {<<SourceRoot, IgnoreFile>>})
    /\ \E dst \in DstStates : fsDirs = dst.dirs /\ fsFiles = dst.files
    /\ pc = "start"
    /\ walkStack = <<>> /\ root = NoPath /\ files = {}
    /\ container = <<>> /\ directories = {} /\ dirsTodo = {} /\ genIdx = 0
    /\ mutations = {} /\ exc = ""
    /\ item = NoItem /\ ret = NoRet /\ history = <<>>

\* The prompt, and the setup of the walk.
Confirm ==
    /\ pc = "start"
    /\ IF proceeds(args.dry, answer)
       THEN /\ username' = args.username
            /\ host' = args.hostname
            /\ walkStack' = <<SourceRoot>>
            /\ pc' = "walk"
       ELSE /\ pc' = "exit"
            /\ UNCHANGED <<username, host, walkStack>>
    /\ UNCHANGED <<args, answer, srcDirs, srcFiles, rules, root, files,
                   container, directories, dirsTodo, genIdx, fsDirs,
                   fsFiles, mutations, exc, item, ret, history>>

\* os.walk's dirs and files for a directory.
walk_dirs(top) == {d \in srcDirs : d # SourceRoot /\ Parent(d) = top}
walk_files(top) == {f[2] : f \in {g \in srcFiles : g[1] = top}}

\* The orders a set may be listed in.
Orderings(S) ==
    {seq \in [1..Cardinality(S) -> S] :
        \A i, j \in 1..Cardinality(S) : seq[i] = seq[j] => i = j}

\* relpath(root, source_root), as the string ignored() is handed.
rel_subroot(top) == JoinSep(relpath(top, SourceRoot).parts)

\* os.walk yields the next directory, top down, its subdirectories to
\* follow in the order they were listed; the loop's body skips the
\* directory when an ignore rule matches it.
WalkNext ==
    /\ pc = "walk" /\ root = NoPath /\ walkStack # <<>>
    /\ LET top == Head(walkStack)
       IN /\ \E order \in Orderings(walk_dirs(top)) :
                walkStack' = order \o Tail(walkStack)
          /\ IF ignored(rules, rel_subroot(top))
             THEN UNCHANGED <<root, files>>
             ELSE root' = top /\ files' = walk_files(top)
    /\ UNCHANGED <<username, host, args, answer, srcDirs, srcFiles, rules,
                   pc, container, directories, dirsTodo, genIdx, fsDirs,
                   fsFiles, mutations, exc, item, ret, history>>

\* One turn of the loop over a directory's files.
WalkFile ==
    /\ pc = "walk" /\ root # NoPath
    /\ \E name \in files :
          LET it == SpecializedItem(root, name)
          IN /\ item' = it
             /\ files' = files \ {name}
             /\ IF is_valid_raises(it)
                THEN /\ exc' = "TypeError"
                     /\ pc' = "raised"
                     /\ UNCHANGED <<container, history>>
                ELSE /\ UNCHANGED <<exc, pc>>
                     /\ IF \/ ~is_valid(it, username, host)
                           \/ ignored(rules, it.filename)
                        THEN UNCHANGED <<container, history>>
                        ELSE /\ container' = add(container, it, username, host,
                                                 SourceRoot, DestinationRoot)
                             /\ history' = Append(history, it)
    /\ UNCHANGED <<username, host, args, answer, srcDirs, srcFiles, rules,
                   walkStack, root, directories, dirsTodo, genIdx, fsDirs,
                   fsFiles, mutations, ret>>

\* The end of the loop's body: a directory without subdirectories is a
\* directory to create.
WalkLeave ==
    /\ pc = "walk" /\ root # NoPath /\ files = {}
    /\ directories' =
          IF walk_dirs(root) = {}
          THEN directories
               \cup {abspath(join(DestinationRoot, relpath(root, SourceRoot)))}
          ELSE directories
    /\ root' = NoPath
    /\ UNCHANGED <<username, host, args, answer, srcDirs, srcFiles, rules,
                   pc, walkStack, files, container, dirsTodo, genIdx, fsDirs,
                   fsFiles, mutations, exc, item, ret, history>>

\* The walk is over.
WalkEnd ==
    /\ pc = "walk" /\ root = NoPath /\ walkStack = <<>>
    /\ pc' = "mkdirs"
    /\ dirsTodo' = directories
    /\ UNCHANGED <<username, host, args, answer, srcDirs, srcFiles, rules,
                   walkStack, root, files, container, directories, genIdx,
                   fsDirs, fsFiles, mutations, exc, item, ret, history>>

\* A path and the directories above it, the filesystem's root apart.
RECURSIVE Upwards(_)
Upwards(p) == IF p.parts = <<>> THEN {} ELSE {p} \cup Upwards(Parent(p))

\* os.makedirs raises FileExistsError: the path exists.
makedirs_exists(directory, dirs, fls) == directory \in dirs \cup fls

\* The directories os.makedirs creates: the path and those missing above.
makedirs(directory, dirs) == Upwards(directory) \ dirs

\* One turn of the loop that creates the directories.
MakeDir ==
    /\ pc = "mkdirs"
    /\ \E directory \in dirsTodo :
          /\ dirsTodo' = dirsTodo \ {directory}
          /\ IF args.dry \/ makedirs_exists(directory, fsDirs, fsFiles)
             THEN UNCHANGED <<fsDirs, mutations>>
             ELSE /\ fsDirs' = fsDirs \cup makedirs(directory, fsDirs)
                  /\ mutations' = mutations \cup
                        {<<"mkdir", d>> : d \in makedirs(directory, fsDirs)}
    /\ UNCHANGED <<username, host, args, answer, srcDirs, srcFiles, rules,
                   pc, walkStack, root, files, container, directories,
                   genIdx, fsFiles, exc, item, ret, history>>

\* The directories are done; generate starts.
MakeDirsEnd ==
    /\ pc = "mkdirs" /\ dirsTodo = {}
    /\ pc' = "generate"
    /\ genIdx' = 1
    /\ UNCHANGED <<username, host, args, answer, srcDirs, srcFiles, rules,
                   walkStack, root, files, container, directories, dirsTodo,
                   fsDirs, fsFiles, mutations, exc, item, ret, history>>

\* generate removes the destination first: force, and a file or a link.
unlinks(force, dst, fls) == force /\ dst \in fls

\* What os.symlink(src, dst) raises, "" when it makes the link.
symlink_error(dst, dirs, fls) ==
    IF Parent(dst).parts # <<>> /\ Parent(dst) \notin dirs
    THEN "FileNotFoundError"
    ELSE IF dst \in dirs \cup fls THEN "FileExistsError"
    ELSE ""

\* One turn of generate's loop over the container.
Generate ==
    /\ pc = "generate" /\ genIdx <= Len(container)
    /\ LET dst == container[genIdx].dst
           gone == unlinks(args.force, dst, fsFiles)
           left == IF gone THEN fsFiles \ {dst} ELSE fsFiles
           error == symlink_error(dst, fsDirs, left)
       IN IF args.dry
          THEN /\ genIdx' = genIdx + 1
               /\ UNCHANGED <<pc, fsFiles, mutations, exc>>
          ELSE /\ fsFiles' = IF error = "" THEN left \cup {dst} ELSE left
               /\ mutations' = mutations
                     \cup (IF gone THEN {<<"unlink", dst>>} ELSE {})
                     \cup (IF error = "" THEN {<<"symlink", dst>>} ELSE {})
               /\ exc' = error
               /\ pc' = IF error = "" THEN pc ELSE "raised"
               /\ genIdx' = IF error = "" THEN genIdx + 1 ELSE genIdx
    /\ UNCHANGED <<username, host, args, answer, srcDirs, srcFiles, rules,
                   walkStack, root, files, container, directories, dirsTodo,
                   fsDirs, item, ret, history>>

\* generate returns, and main with it.
GenerateEnd ==
    /\ pc = "generate" /\ genIdx > Len(container)
    /\ pc' = "done"
    /\ UNCHANGED <<username, host, args, answer, srcDirs, srcFiles, rules,
                   walkStack, root, files, container, directories, dirsTodo,
                   genIdx, fsDirs, fsFiles, mutations, exc, item, ret,
                   history>>

Next ==
    \/ Confirm
    \/ WalkNext
    \/ WalkFile
    \/ WalkLeave
    \/ WalkEnd
    \/ MakeDir
    \/ MakeDirsEnd
    \/ Generate
    \/ GenerateEnd

Spec == Init /\ [][Next]_vars

---------------------------------------------------------------------------
(* Claims about the resolver (SpecResolve).                                *)

UserAtHost == username \o <<"@">> \o host

\* The hostname read character by character, "." standing for any
\* character, spells q.
HostSpells(q) ==
    /\ Len(q) = Len(host)
    /\ \A k \in 1..Len(q) : host[k] \in {".", q[k]}

\* Neither the username nor the hostname holds a metacharacter.
PlainIdentity == \A k \in 1..Len(username \o host) : (username \o host)[k] # "."

HasNewline(q) == \E k \in 1..Len(q) : q[k] = NL

---------------------------------------------------------------------------
(* Claims about the container (SpecAdd).                                   *)

Indices(seq) == 1..Len(seq)

\* The rank the documentation gives a qualifier: user@host over user
\* over host over none; -1 for any other qualifier.
Precedence(it) ==
    IF it.specialization = None THEN 0
    ELSE IF it.specialization = UserAtHost THEN 3
    ELSE IF it.specialization = username THEN 2
    ELSE IF it.specialization = host THEN 1
    ELSE -1

Dst(it) == add_dst(it, SourceRoot, DestinationRoot)
Src(it) == add_src(it, SourceRoot)
Priority(it) == get_priority(it, username, host)

\* C2: when every candidate added is valid, the source stored for a
\* destination is a candidate of the highest precedence among those
\* added for it, whatever the order of the adds.
C2_Precedence ==
    (\A i \in Indices(history) : Precedence(history[i]) >= 0) =>
        \A e \in Indices(container) : \A i \in Indices(history) :
            Dst(history[i]) = container[e].dst =>
                \E j \in Indices(history) :
                    /\ Src(history[j]) = container[e].source
                    /\ Precedence(history[j]) >= Precedence(history[i])

\* C4: an add on a destination that has an entry replaces the entry
\* when the new priority is strictly greater, and otherwise leaves the
\* whole container as it was.
C4_ReplaceIffGreater ==
    [][LET i == KeyIndex(container, Dst(item'))
       IN i # 0 =>
            IF Priority(item') > container[i].priority
            THEN /\ container'[i].source = Src(item')
                 /\ container'[i].priority = Priority(item')
                 /\ container'[i] # container[i]
            ELSE container' = container]_vars

\* A second candidate of the same priority has been added for a
\* destination, and the first is still the one stored.
C4_Witness ==
    /\ Len(history) = 2
    /\ Dst(history[1]) = Dst(history[2])
    /\ Priority(history[1]) = Priority(history[2])
    /\ Src(history[1]) # Src(history[2])
    /\ Len(container) = 1
    /\ container[1].source = Src(history[1])

SrcAB == Path(TRUE, << <<"s", "r", "c">>, <<"a">>, <<"b">> >>)

\* C6 as stated: the unqualified file f of /src/a/b gets the
\* destination /out/b/f.
C6_DestinationAsStated ==
    (item.directory = SrcAB /\ item.filename = <<"f">>) =>
        \E e \in Indices(container) :
            container[e].dst = Path(TRUE, << <<"o", "u", "t">>, <<"b">>, <<"f">> >>)

\* C6, amended: the unqualified file f of /src/a/b gets the destination
\* /out/a/b/f: every directory below the source root is kept.  In
\* general an added item's destination is the destination root, then
\* the item's directory below the source root, then its name.
C6_Destination ==
    /\ (item.directory = SrcAB /\ item.filename = <<"f">>) =>
            \E e \in Indices(container) :
                container[e].dst = Path(TRUE, << <<"o", "u", "t">>, <<"a">>,
                                                <<"b">>, <<"f">> >>)
    /\ \A i \in Indices(history) : \E e \in Indices(container) :
            container[e].dst.parts =
                DestinationRoot.parts
                \o SubSeq(history[i].directory.parts, 2,
                          Len(history[i].directory.parts))
                \o <<history[i].destination>>

\* The unqualified file f of /src/a/b has just been added.
C6_Witness ==
    /\ item.directory = SrcAB
    /\ item.filename = <<"f">>
    /\ \E e \in Indices(container) : container[e].source.parts = SrcAB.parts \o << <<"f">> >>

Max(S) == CHOOSE x \in S : \A y \in S : x >= y

\* C10: no two entries share a destination, every destination a
\* candidate was added for has an entry, and the entry's priority is
\* the highest priority among the candidates added for it.
C10_MaxPriority ==
    /\ \A e1, e2 \in Indices(container) :
            container[e1].dst = container[e2].dst => e1 = e2
    /\ \A i \in Indices(history) : KeyIndex(container, Dst(history[i])) # 0
    /\ \A e \in Indices(container) :
            container[e].priority =
                Max({Priority(history[i]) :
                        i \in {j \in Indices(history) :
                                  Dst(history[j]) = container[e].dst}})

\* Three candidates of different priorities have been added for one
\* destination, the highest neither first nor last.
C10_Witness ==
    /\ Len(history) = 3
    /\ Len(container) = 1
    /\ Priority(history[2]) > Priority(history[1])
    /\ Priority(history[2]) > Priority(history[3])
    /\ container[1].priority = Priority(history[2])

---------------------------------------------------------------------------
(* Claims about the run (Spec).                                            *)

\* C1: no step of a dry run, and no step of a run whose answer is
\* neither "y" nor "Y", creates a directory, removes a destination or
\* makes a link.
C1_NoMutationUnlessConfirmed ==
    [][(args.dry \/ answer \notin {<<"y">>, <<"Y">>}) =>
            UNCHANGED <<fsDirs, fsFiles, mutations>>]_vars

\* A dry run with --force has reported a missing directory and a link
\* over an existing file, and is over with nothing changed.
C1_Witness ==
    /\ pc = "done"
    /\ args.dry /\ args.force
    /\ \E d \in directories : d \notin fsDirs
    /\ \E e \in Indices(container) : container[e].dst \in fsFiles
    /\ mutations = {}

\* C5: no item whose qualifier is present and equal to none of the
\* host, the username and username@host is passed to add.
C5_InvalidNeverAdded ==
    \A i \in Indices(history) :
        \/ history[i].specialization = None
        \/ history[i].specialization \in {host, username, UserAtHost}

\* C7: a file whose name fails the grammar raises nothing.
C7_ParseFailureSkipped ==
    (item.filename # None /\ ~split_matches(item.filename)) =>
        (exc = "" /\ pc # "raised")

\* C8: when generate, in a run that is not dry, comes to make a link,
\* the directory the link goes in exists.
C8_ParentExists ==
    (pc = "generate" /\ ~args.dry /\ genIdx <= Len(container)) =>
        Parent(container[genIdx].dst) \in fsDirs

\* The directories from the source root down to a directory.
RECURSIVE Within(_)
Within(d) == IF d = SourceRoot THEN {d} ELSE {d} \cup Within(Parent(d))

\* C9: no file of a directory an ignore rule matches, nor of a directory
\* below it, is added.
C9_IgnoredSubtreeSkipped ==
    \A i \in Indices(history) : \A d \in Within(history[i].directory) :
        ~ignored(rules, rel_subroot(d))

=============================================================================
